---- MODULE Spec2Model ----
(***************************************************************************)
(* Model of the symbol database of clang-server (package symbol,           *)
(* src/symbol/type.go): the File accumulator, its mutation calls, the      *)
(* flatbuffers encoding written by Serialize, the buffer-backed view       *)
(* opened by GetRootAsFile and its materialisation by Unmarshal.           *)
(* Two further state machines cover the conversion of code completion      *)
(* results (CompleteItem, CodeCompleteResults) and the reads through a     *)
(* view of a buffer that may lack required fields.                         *)
(*                                                                         *)
(* Conventions of the model                                                *)
(*  - a Go string is a sequence of atoms (TLA+ strings that are never      *)
(*    split), "" is << >>, + is \o;                                        *)
(*  - a Go pointer, and a Go map that may be nil, is a sequence of length  *)
(*    0 (nil) or 1 (the value pointed to / the made map);                  *)
(*  - a nil slice and an empty slice are both << >> (the code only takes   *)
(*    len of them);                                                        *)
(*  - a flatbuffers table is the record of its fields: offsets are the     *)
(*    nesting of the records, a vector is the sequence of its elements in  *)
(*    reading order;                                                       *)
(*  - a Go run-time panic is the value of the variable failure.            *)
(***************************************************************************)
EXTENDS Integers, Sequences, FiniteSets, TLC

\* ------------------------------------------------------------------ bounds

\* Mutation calls (AddDecl, AddDefinition, AddCaller, AddHeader,
\* AddTranslationUnit) made in one behaviour.
MaxOps == 3

\* Calls that load a File from a buffer (GetRootAsFile, Unmarshal) made in
\* one behaviour.
MaxLoads == 2

\* The most candidates of a code completion, and the most chunks they hold in
\* all.
MaxResults == 2

MaxChunks == 3

\* The most Info tables of a buffer handed to a reader.
MaxInfos == 1

\* ----------------------------------------------------------------- strings

EmptyString == << >>

Str(a) == <<a>>

\* ---------------------------------------------------------------- identity

\* The digest of s.  The hash is deterministic and collision free, and a
\* digest is never the string it was computed from: the digest of s is the
\* 1-tuple holding s.
Hash(s) == <<s>>

\* The zero value of the fixed-width ID / FileID array types.
ZeroID == << >>

\* ID.String / FileID.String: the printable form of a digest, an injective
\* encoding that is itself an ordinary string.
HashString(id) == IF id = ZeroID THEN Str("0") ELSE Str("#") \o id[1]

ToID(s) == Hash(s)

ToFileID(s) == Hash(s)

\* ------------------------------------------------------------------- paths

Sep == "/"

\* The elements of p between separators, empty elements dropped.
RECURSIVE Components(_)
Components(p) ==
    IF p = << >> THEN << >>
    ELSE IF Head(p) = Sep THEN Components(Tail(p))
    ELSE LET n == CHOOSE k \in 1..Len(p) :
                     /\ \A j \in 1..k : p[j] /= Sep
                     /\ (k = Len(p) \/ p[k + 1] = Sep)
         IN  <<SubSeq(p, 1, n)>> \o Components(SubSeq(p, n + 1, Len(p)))

RECURSIVE Join(_)
Join(cs) ==
    IF cs = << >> THEN << >>
    ELSE IF Len(cs) = 1 THEN cs[1]
    ELSE cs[1] \o <<Sep>> \o Join(Tail(cs))

\* The element stack of filepath.Clean: "." is dropped, ".." removes the
\* element before it, is dropped at the root and is kept at the start of a
\* relative path.
RECURSIVE CleanElems(_, _, _)
CleanElems(cs, out, rooted) ==
    IF cs = << >> THEN out
    ELSE LET c == Head(cs) IN
         IF c = Str(".") THEN CleanElems(Tail(cs), out, rooted)
         ELSE IF c = Str("..")
              THEN IF out /= << >> /\ out[Len(out)] /= Str("..")
                   THEN CleanElems(Tail(cs), SubSeq(out, 1, Len(out) - 1), rooted)
                   ELSE IF rooted THEN CleanElems(Tail(cs), out, rooted)
                   ELSE CleanElems(Tail(cs), Append(out, c), rooted)
         ELSE CleanElems(Tail(cs), Append(out, c), rooted)

\* filepath.Clean
Clean(p) ==
    IF p = EmptyString THEN Str(".")
    ELSE LET rooted == Head(p) = Sep
             out    == Join(CleanElems(Components(p), << >>, rooted))
         IN  IF rooted THEN <<Sep>> \o out
             ELSE IF out = << >> THEN Str(".") ELSE out

\* filepath.Base
Base(p) ==
    IF p = EmptyString THEN Str(".")
    ELSE LET cs == Components(p)
         IN  IF cs = << >> THEN <<Sep>> ELSE cs[Len(cs)]

\* notExistHeaderName return the not exist header name magic words.
notExistHeaderName(headPath) == Str("IDoNotReallyExist-") \o Base(headPath)

\* ---------------------------------------------------------------- entities

Nil == << >>

Ptr(x) == <<x>>

\* make(map[K]V)
EmptyMap == [k \in {} |-> k]

MapPut(m, k, v) == [x \in (DOMAIN m) \cup {k} |-> IF x = k THEN v ELSE m[x]]

\* time.Time, to the precision the code reads it.
Time(sec, nsec) == [sec |-> sec, nsec |-> nsec]

\* time.Time{}.Unix() is -62135596800 in Go; the model keeps a negative
\* number no input time has.
ZeroTimeUnix == -1

ZeroTime == Time(ZeroTimeUnix, 0)

\* Time.Unix
Unix(t) == t.sec

\* Location{}
ZeroLocation ==
    [fileName |-> EmptyString, line |-> 0, col |-> 0, offset |-> 0,
     usr |-> EmptyString, location |-> Nil]

\* &Info{id: id}
NewInfo(id) ==
    [id |-> id, decls |-> << >>, def |-> ZeroLocation, callers |-> << >>,
     info |-> Nil]

\* reflect.DeepEqual on two interface values: values of different dynamic
\* types are never deeply equal; a pointer is equal to a pointer whose
\* target is deeply equal.
DeepEqual(x, y) == x.type = y.type /\ x.val = y.val

\* func (l *Location) isExist() bool: the receiver l is a *Location, the
\* other operand is a Location value.
isExist(l) ==
    ~DeepEqual([type |-> "*Location", val |-> l],
               [type |-> "Location", val |-> ZeroLocation])

\* The outcome of a call on a File: the File afterwards and the panic that
\* ended the call, if any.
NoFailure == "none"

NilMapWrite == "assignment to entry in nil map"

NilDeref == "nil pointer dereference"

Done(f) == [f |-> f, failure |-> NoFailure]

Panic(f, why) == [f |-> f, failure |-> why]

\* NewFile
NewFile(name, flags) ==
    [name |-> name, flags |-> flags, translationUnit |-> << >>,
     locations |-> Ptr(EmptyMap), symbols |-> Ptr(EmptyMap),
     headers |-> << >>, builder |-> Ptr("Builder"), file |-> Nil]

\* GetRootAsFile
GetRootAsFile(buf) ==
    [name |-> EmptyString, flags |-> << >>, translationUnit |-> << >>,
     locations |-> Nil, symbols |-> Nil,
     headers |-> << >>, builder |-> Nil, file |-> Ptr(buf)]

\* sym, ok := f.symbols[id]  (reading a nil map finds nothing)
HasSymbol(f, id) == f.symbols /= Nil /\ id \in DOMAIN f.symbols[1]

\* addSymbol with a definition that is only recorded while the Info has none
\* (first write wins).
addSymbolKeepsFirstDef(f, loc, def) ==
    LET id   == ToID(loc.usr)
        ok   == HasSymbol(f, id)
        sym0 == IF ok THEN f.symbols[1][id] ELSE NewInfo(id)
        sym1 == [sym0 EXCEPT !.decls = Append(@, loc)]
        sym  == IF isExist(def) /\ sym0.def = ZeroLocation
                THEN [sym1 EXCEPT !.def = def] ELSE sym1
        f1   == IF ok THEN [f EXCEPT !.symbols = Ptr(MapPut(@[1], id, sym))]
                ELSE f
    IN  IF f1.locations = Nil THEN Panic(f1, NilMapWrite)
        ELSE LET f2 == [f1 EXCEPT !.locations = Ptr(MapPut(@[1], loc, id))]
             IN  IF f2.symbols = Nil THEN Panic(f2, NilMapWrite)
                 ELSE Done([f2 EXCEPT !.symbols = Ptr(MapPut(@[1], id, sym))])

\* File.addSymbol.  sym is a pointer: when the Info is already in the table
\* the appends and the assignment of def act on the stored Info at once,
\* before the two map writes.
addSymbol(f, loc, def) ==
    LET id   == ToID(loc.usr)
        ok   == HasSymbol(f, id)
        sym0 == IF ok THEN f.symbols[1][id] ELSE NewInfo(id)
        sym1 == [sym0 EXCEPT !.decls = Append(@, loc)]
        sym  == IF isExist(def) THEN [sym1 EXCEPT !.def = def] ELSE sym1
        f1   == IF ok THEN [f EXCEPT !.symbols = Ptr(MapPut(@[1], id, sym))]
                ELSE f
    IN  IF f1.locations = Nil THEN Panic(f1, NilMapWrite)
        ELSE LET f2 == [f1 EXCEPT !.locations = Ptr(MapPut(@[1], loc, id))]
             IN  IF f2.symbols = Nil THEN Panic(f2, NilMapWrite)
                 ELSE Done([f2 EXCEPT !.symbols = Ptr(MapPut(@[1], id, sym))])

\* File.AddDecl
AddDecl(f, loc) == addSymbol(f, loc, ZeroLocation)

\* File.AddDefinition
AddDefinition(f, loc, def) == addSymbol(f, loc, def)

\* AddCaller that also records the call site as a declaration.
AddCallerRecordsDecl(f, sym, def, funcCall) ==
    LET id    == ToID(sym.usr)
        ok    == HasSymbol(f, id)
        syms0 == IF ok THEN f.symbols[1][id] ELSE NewInfo(id)
        c     == [location |-> sym, funcCall |-> funcCall, caller |-> Nil]
        syms  == [syms0 EXCEPT !.callers = Append(@, Ptr(c)),
                               !.decls = Append(@, sym)]
    IN  IF f.symbols = Nil THEN Panic(f, NilMapWrite)
        ELSE Done([f EXCEPT !.symbols = Ptr(MapPut(@[1], id, syms))])

\* AddCaller that keys the record by the USR of def instead of sym.
AddCallerKeyedByDef(f, sym, def, funcCall) ==
    LET id    == ToID(def.usr)
        ok    == HasSymbol(f, id)
        syms0 == IF ok THEN f.symbols[1][id] ELSE NewInfo(id)
        c     == [location |-> sym, funcCall |-> funcCall, caller |-> Nil]
        syms  == [syms0 EXCEPT !.callers = Append(@, Ptr(c))]
    IN  IF f.symbols = Nil THEN Panic(f, NilMapWrite)
        ELSE Done([f EXCEPT !.symbols = Ptr(MapPut(@[1], id, syms))])

\* File.AddCaller (def is not read)
AddCaller(f, sym, def, funcCall) ==
    LET id    == ToID(sym.usr)
        ok    == HasSymbol(f, id)
        syms0 == IF ok THEN f.symbols[1][id] ELSE NewInfo(id)
        c     == [location |-> sym, funcCall |-> funcCall, caller |-> Nil]
        syms  == [syms0 EXCEPT !.callers = Append(@, Ptr(c))]
    IN  IF f.symbols = Nil THEN Panic(f, NilMapWrite)
        ELSE Done([f EXCEPT !.symbols = Ptr(MapPut(@[1], id, syms))])

\* The Header AddHeader builds from the handle headerFile (its Name() and
\* Time()) and the wall clock.
NewHeader(headerFile, now) ==
    IF headerFile.name = EmptyString
    THEN [fileid |-> ToFileID(notExistHeaderName(Clean(headerFile.name))),
          mtime |-> now, header |-> Nil]
    ELSE [fileid |-> ToFileID(Clean(headerFile.name)),
          mtime |-> headerFile.time, header |-> Nil]

\* AddHeader that skips a header whose FileID the list already holds.
AddHeaderOncePerFile(f, includePath, headerFile, now) ==
    LET hdr == NewHeader(headerFile, now)
    IN  IF \E i \in 1..Len(f.headers) :
               f.headers[i] /= Nil /\ f.headers[i][1].fileid = hdr.fileid
        THEN Done(f)
        ELSE Done([f EXCEPT !.headers = Append(@, Ptr(hdr))])

\* File.AddHeader (includePath is not read)
AddHeader(f, includePath, headerFile, now) ==
    Done([f EXCEPT !.headers = Append(@, Ptr(NewHeader(headerFile, now)))])

\* File.AddTranslationUnit
AddTranslationUnit(f, buf) == Done([f EXCEPT !.translationUnit = buf])

\* ---------------------------------------------------------------- encoding

\* StartVector, PrependUOffsetT(offsets[i]) for i = n-1 down to 0, EndVector:
\* the builder grows towards lower addresses, so each prepended element
\* lands in front of those written before it.
RECURSIVE PrependFrom(_, _, _)
PrependFrom(offsets, i, vec) ==
    IF i < 1 THEN vec
    ELSE PrependFrom(offsets, i - 1, <<offsets[i]>> \o vec)

Vector(offsets) == PrependFrom(offsets, Len(offsets), << >>)

\* Location.serialize: the table is written from the in-memory fields.
serializeLocation(l) ==
    [FileName |-> l.fileName, Line |-> l.line, Col |-> l.col,
     Offset |-> l.offset, USR |-> l.usr]

\* Caller.serialize
serializeCaller(c) ==
    [Location |-> serializeLocation(c.location),
     FuncCall |-> IF c.funcCall THEN 1 ELSE 0]

\* Header.serialize
serializeHeader(h) ==
    [FileID |-> HashString(h.fileid), Mtime |-> Unix(h.mtime)]

\* Info.serialize.  An empty Decls or Callers list leaves the field's offset
\* 0, which the table does not store; it reads back as a vector of length 0.
serializeInfo(info) ==
    [ID      |-> HashString(info.id),
     Decls   |-> Vector([i \in 1..Len(info.decls) |->
                            serializeLocation(info.decls[i])]),
     Def     |-> serializeLocation(info.def),
     Callers |-> Vector([i \in 1..Len(info.callers) |->
                            serializeCaller(info.callers[i][1])])]

\* The result of an accessor: a value, or a panic.
Ok(v) == [ok |-> TRUE, val |-> v]

Fail == [ok |-> FALSE, val |-> << >>]

\* The read of a field of a table a buffer holds: its value, or the default
\* of the encoding when the table lacks the field (nothing checks at decode
\* time that a required field is there).
Field(t, field, default) == IF field \in DOMAIN t THEN t[field] ELSE default

\* new(symbol.Location): a table no buffer has been put behind.
NewTable == << >>

\* File.Name
Name(f) ==
    IF f.name /= EmptyString THEN Ok(f.name)
    ELSE IF f.file = Nil THEN Fail
    ELSE Ok(Field(f.file[1], "Name", EmptyString))

\* File.Flags
Flags(f) ==
    IF Len(f.flags) > 0 THEN Ok(f.flags)
    ELSE IF f.file = Nil THEN Fail
    ELSE Ok(f.file[1].Flags)

\* File.TranslationUnit
TranslationUnit(f) ==
    IF Len(f.translationUnit) > 0 THEN Ok(f.translationUnit)
    ELSE IF f.file = Nil THEN Fail
    ELSE Ok(f.file[1].TranslationUnit)

\* &Header{header: obj}
ViewHeader(t) == [fileid |-> ZeroID, mtime |-> ZeroTime, header |-> Ptr(t)]

\* File.Headers
Headers(f) ==
    IF Len(f.headers) > 0 THEN Ok(f.headers)
    ELSE IF f.file = Nil THEN Fail
    ELSE Ok([i \in 1..Len(f.file[1].Headers) |->
                Ptr(ViewHeader(f.file[1].Headers[i]))])

\* Header.FileID
HeaderFileID(h) ==
    IF h.header = Nil THEN Fail ELSE Ok(ToFileID(h.header[1].FileID))

\* Header.Mtime
HeaderMtime(h) ==
    IF h.header = Nil THEN Fail ELSE Ok(h.header[1].Mtime)

\* &Info{info: obj}
ViewInfo(t) == [NewInfo(ZeroID) EXCEPT !.info = Ptr(t)]

\* Location{location: obj}
ViewLocation(t) == [ZeroLocation EXCEPT !.location = Ptr(t)]

\* &Caller{caller: obj}
ViewCaller(t) ==
    [location |-> ZeroLocation, funcCall |-> FALSE, caller |-> Ptr(t)]

\* Info.ID
InfoID(info) ==
    IF info.info = Nil THEN Fail
    ELSE Ok(ToID(Field(info.info[1], "ID", EmptyString)))

\* Info.Decls
InfoDecls(info) ==
    IF info.info = Nil THEN Fail
    ELSE Ok([i \in 1..Len(info.info[1].Decls) |->
                ViewLocation(info.info[1].Decls[i])])

\* Info.Def
InfoDef(info) ==
    IF info.info = Nil THEN Fail ELSE Ok(ViewLocation(info.info[1].Def))

\* Info.Callers
InfoCallers(info) ==
    IF info.info = Nil THEN Fail
    ELSE Ok([i \in 1..Len(info.info[1].Callers) |->
                Ptr(ViewCaller(info.info[1].Callers[i]))])

\* Caller.Location: obj is returned whether or not c.caller.Location(obj)
\* found the field.
CallerLocation(c) ==
    IF c.caller = Nil THEN Fail
    ELSE Ok(ViewLocation(Field(c.caller[1], "Location", NewTable)))

\* Caller.FuncCall
CallerFuncCall(c) ==
    IF c.caller = Nil THEN Fail ELSE Ok(c.caller[1].FuncCall /= 0)

\* Location.FileName
LocationFileName(l) ==
    IF l.location = Nil THEN Ok(l.fileName) ELSE Ok(l.location[1].FileName)

\* Location.USR
LocationUSR(l) ==
    IF l.location = Nil THEN Ok(l.usr) ELSE Ok(l.location[1].USR)

\* Location.Line
LocationLine(l) ==
    IF l.location = Nil THEN Fail ELSE Ok(l.location[1].Line)

\* Location.Col
LocationCol(l) ==
    IF l.location = Nil THEN Fail ELSE Ok(l.location[1].Col)

\* Location.Offset
LocationOffset(l) ==
    IF l.location = Nil THEN Fail ELSE Ok(l.location[1].Offset)

\* The orders in which a range over a Go map with key set S may visit it.
Orders(S) ==
    {o \in [1..Cardinality(S) -> S] : \A i, j \in DOMAIN o : o[i] = o[j] => i = j}

\* File.Symbols, buffer branch: one &Info{info: obj} per element.
BufferSymbols(f) ==
    [i \in 1..Len(f.file[1].Symbols) |-> Ptr(ViewInfo(f.file[1].Symbols[i]))]

\* make([]*T, n): n nil pointers
NilPointers(n) == [i \in 1..n |-> Nil]

\* File.Symbols.  With a non-empty table the result is make([]*Info, n)
\* followed by the appended Infos in the order `order` of the map range.
Symbols(f, order) ==
    IF f.symbols /= Nil /\ Cardinality(DOMAIN f.symbols[1]) > 0
    THEN Ok(NilPointers(Cardinality(DOMAIN f.symbols[1]))
            \o [i \in 1..Len(order) |-> Ptr(f.symbols[1][order[i]])])
    ELSE IF f.file = Nil THEN Fail
    ELSE Ok(BufferSymbols(f))

\* ------------------------------------------------------ Serialize, Unmarshal

\* Some pointer of ps is nil (hdr.serialize dereferences hdr).
HasNilPointer(ps) == \E i \in 1..Len(ps) : ps[i] = Nil

\* File.Serialize.  order is the order of the range over f.symbols.  The
\* result holds the File afterwards, the panic if any, and the finished
\* buffer (the root File table) when the call returns.
Serialize(f, order) ==
    LET f1      == IF f.builder = Nil THEN [f EXCEPT !.builder = Ptr("Builder")]
                   ELSE f
        fname   == Name(f1)
        tu      == TranslationUnit(f1)
        symbols == IF f1.symbols = Nil THEN << >>
                   ELSE [i \in 1..Len(order) |->
                            serializeInfo(f1.symbols[1][order[i]])]
    IN  IF ~fname.ok \/ ~tu.ok \/ HasNilPointer(f1.headers)
        THEN [f |-> f1, failure |-> NilDeref, buf |-> Nil]
        ELSE [f |-> f1, failure |-> NoFailure,
              buf |-> Ptr([Name            |-> fname.val,
                           Flags           |-> Vector(f1.flags),
                           TranslationUnit |-> tu.val,
                           Symbols         |-> Vector(symbols),
                           Headers         |-> Vector(
                               [i \in 1..Len(f1.headers) |->
                                   serializeHeader(f1.headers[i][1])])])]

\* The keys a range over f.symbols visits.
SymbolKeys(f) == IF f.symbols = Nil THEN {} ELSE DOMAIN f.symbols[1]

\* The loop of File.Unmarshal over f.Symbols(): each decoded Info is stored
\* under the ID its accessor returns.
RECURSIVE UnmarshalSymbols(_, _)
UnmarshalSymbols(infos, m) ==
    IF infos = << >> THEN m
    ELSE LET s == Head(infos)[1]
         IN  UnmarshalSymbols(Tail(infos),
                 MapPut(m, InfoID(s).val,
                        [id      |-> InfoID(s).val,
                         decls   |-> InfoDecls(s).val,
                         def     |-> InfoDef(s).val,
                         callers |-> InfoCallers(s).val,
                         info    |-> s.info]))

\* f.headers = make([]*Header, len(headers)) followed by one append per
\* header.
UnmarshalHeaders(headers) == NilPointers(Len(headers)) \o headers

\* File.Unmarshal
Unmarshal(f) ==
    IF f.file = Nil THEN Panic(f, NilDeref)
    ELSE LET f1 == [f EXCEPT !.name = f.file[1].Name,
                             !.translationUnit = f.file[1].TranslationUnit,
                             !.symbols = Ptr(EmptyMap)]
             f2 == [f1 EXCEPT !.symbols =
                        Ptr(UnmarshalSymbols(Symbols(f1, << >>).val, EmptyMap))]
         IN  Done([f2 EXCEPT !.headers = UnmarshalHeaders(Headers(f2).val)])

\* ------------------------------------------------------------------ inputs

Loc(fileName, line, col, offset, usr) ==
    [fileName |-> fileName, line |-> line, col |-> col, offset |-> offset,
     usr |-> usr, location |-> Nil]

UsrA == Str("c:@F@a")

UsrB == Str("c:@F@b")

LocA1 == Loc(Str("a.c"), 1, 2, 3, UsrA)

LocA2 == Loc(Str("a.h"), 4, 0, 5, UsrA)

LocB == Loc(Str("a.c"), 6, 7, 8, UsrB)

LocNoUsr == Loc(Str("a.c"), 9, 1, 9, EmptyString)

\* The locations handed to AddDecl and AddDefinition.
Locations == {LocA1, LocA2, LocB, LocNoUsr}

\* The locations handed to AddCaller.
CallSites == {LocA1, LocNoUsr}

\* The definitions handed to AddDefinition.
Definitions == {ZeroLocation, LocA1, LocA2}

\* The header handles handed to AddHeader: Name() and Time().
HeaderFile(name, time) == [name |-> name, time |-> time]

HeaderFiles ==
    {HeaderFile(EmptyString, Time(0, 0)),
     HeaderFile(Str("h.h"), Time(1, 0)),
     HeaderFile(<<".", Sep, "h.h">>, Time(2, 5))}

\* The paths under which the header of a handle is included (the includePath
\* argument of AddHeader): a handle without a name stands for either of two
\* synthetic headers, a named one is included under its own name.
IncludePaths(headerFile) ==
    IF headerFile.name = EmptyString
    THEN {Str("stdarg.h"), <<"builtin", Sep, "stddef.h">>}
    ELSE {headerFile.name}

\* The values time.Now() may return.
Nows == {Time(7, 1), Time(8, 0)}

TranslationUnits == {<< >>, <<"tu1">>, <<"tu2">>}

\* The arguments of NewFile: name and flags.
NewFileArgs ==
    {<<EmptyString, << >> >>, <<Str("a.c"), <<Str("-Wall"), Str("-O2")>> >>}

\* --------------------------------------------------------- code completion

\* clang.CompletionChunkKind: the two kinds CompleteItem.Marshal names and one
\* of the kinds its default branch takes.
TypedText == "TypedText"

ResultType == "ResultType"

Placeholder == "Placeholder"

ChunkKinds == {TypedText, ResultType, Placeholder}

\* Chunk i of a clang.CompletionString: cs.ChunkKind(i) and cs.ChunkText(i).
Chunk(kind, text) == [kind |-> kind, text |-> text]

\* A variant of the loop body in which the default branch takes result-type
\* chunks too.
MarshalChunkAllInPlaceholder(acc, chunk) ==
    IF chunk.kind = TypedText
    THEN [acc EXCEPT !.word = @ \o chunk.text, !.placeholder = @ \o chunk.text]
    ELSE IF chunk.kind = ResultType
    THEN [acc EXCEPT !.typ = @ \o chunk.text, !.placeholder = @ \o chunk.text]
    ELSE [acc EXCEPT !.placeholder = @ \o chunk.text]

\* CompleteItem.Marshal, the body of the loop over the chunks: acc holds
\* word, typ and placeholder.
MarshalChunk(acc, chunk) ==
    IF chunk.kind = TypedText
    THEN [acc EXCEPT !.word = @ \o chunk.text, !.placeholder = @ \o chunk.text]
    ELSE IF chunk.kind = ResultType
    THEN [acc EXCEPT !.typ = @ \o chunk.text]
    ELSE [acc EXCEPT !.placeholder = @ \o chunk.text]

\* CompleteItem.Marshal, the loop from chunk i on.
RECURSIVE MarshalChunks(_, _, _)
MarshalChunks(cs, i, acc) ==
    IF i > Len(cs) THEN acc
    ELSE MarshalChunks(cs, i + 1, MarshalChunk(acc, cs[i]))

\* CompleteItem.Marshal: the CompleteItem table written for the completion
\* string cs (Icase and Dup are bytes).
CompleteItemMarshal(cs) ==
    LET acc == MarshalChunks(cs, 1, [word        |-> EmptyString,
                                     typ         |-> EmptyString,
                                     placeholder |-> EmptyString])
    IN  [Word  |-> acc.word,
         Abbr  |-> acc.placeholder,
         Menu  |-> EmptyString,
         Info  |-> acc.placeholder,
         Kind  |-> acc.typ,
         Icase |-> 1,
         Dup   |-> 1]

\* flatbuffers.NewBuilder(0): nothing written, Finish not called.
NewBuilder == [finished |-> FALSE, root |-> Nil]

\* builder.Finish(root)
Finish(root) == [finished |-> TRUE, root |-> Ptr(root)]

\* CodeCompleteResults.Marshal.  v is nil or points to the candidates, each
\* its completion string; the result is nil or points to the builder.
CodeCompleteResultsMarshal(v) ==
    IF v = Nil THEN Nil
    ELSE IF Len(v[1]) = 0 THEN Ptr(NewBuilder)
    ELSE Ptr(Finish(
             [Results |-> Vector([i \in 1..Len(v[1]) |->
                                     CompleteItemMarshal(v[1][i])])]))

\* The panic of builder.FinishedBytes() on a builder Finish was not called on.
NotFinished == "Incorrect use of FinishedBytes(): must call 'Finish' first."

\* builder.FinishedBytes() read as its root table.
FinishedBytes(b) == IF b.finished THEN Ok(b.root[1]) ELSE Fail

\* NewCodeCompleteResults: the wrapper of a root CodeCompleteResults table.
NewCodeCompleteResults(t) == [codeCompleteResults |-> Ptr(t)]

\* CodeCompleteResults.Results
Results(ccr) ==
    LET t == ccr.codeCompleteResults[1] IN
    [i \in 1..Len(t.Results) |->
        [word  |-> t.Results[i].Word,
         abbr  |-> t.Results[i].Abbr,
         menu  |-> t.Results[i].Menu,
         info  |-> t.Results[i].Info,
         kind  |-> t.Results[i].Kind,
         icase |-> TRUE,
         dup   |-> TRUE,
         completeItems |-> Nil]]

\* ------------------------------------------------------------------- state

VARIABLES
    f,        \* the File the caller holds
    stored,   \* the buffer the last successful Serialize returned, if any
    failure,  \* the panic that ended the last call, or NoFailure
    last,     \* the last call and its arguments
    nops,     \* mutation calls made so far
    loads,    \* GetRootAsFile and Unmarshal calls made so far
    usrs,     \* the USRs handed to AddDecl/AddDefinition/AddCaller on f
    clangResults,         \* the clang.CodeCompleteResults handed to Marshal
    builder,              \* what CodeCompleteResults.Marshal returned
    codeCompleteResults,  \* the CodeCompleteResults opened on the buffer
    itemList,             \* what Results() returned
    got                   \* the last read through a view and its result

vars == <<f, stored, failure, last, nops, loads, usrs,
          clangResults, builder, codeCompleteResults, itemList, got>>

\* The variables of the code completion calls.
completion == <<clangResults, builder, codeCompleteResults, itemList>>

Call(op) ==
    [op |-> op, loc |-> ZeroLocation, def |-> ZeroLocation, funcCall |-> FALSE,
     includePath |-> EmptyString,
     headerFile |-> HeaderFile(EmptyString, ZeroTime), buf |-> << >>]

Init ==
    /\ \E args \in NewFileArgs : f = NewFile(args[1], args[2])
    /\ stored = Nil
    /\ failure = NoFailure
    /\ last = Call("NewFile")
    /\ nops = 0
    /\ loads = 0
    /\ usrs = {}
    /\ clangResults = Nil
    /\ builder = Nil
    /\ codeCompleteResults = Nil
    /\ itemList = << >>
    /\ got = Nil

\* A call is made on f only while no panic has ended the program.
CanMutate == failure = NoFailure /\ nops < MaxOps

CallAddDecl ==
    /\ CanMutate
    /\ \E loc \in Locations :
         LET r == AddDecl(f, loc) IN
         /\ f' = r.f
         /\ failure' = r.failure
         /\ last' = [Call("AddDecl") EXCEPT !.loc = loc]
         /\ usrs' = usrs \cup {loc.usr}
    /\ nops' = nops + 1
    /\ UNCHANGED <<stored, loads>>
    /\ UNCHANGED <<completion, got>>

CallAddDefinition ==
    /\ CanMutate
    /\ \E loc \in Locations, def \in Definitions :
         LET r == AddDefinition(f, loc, def) IN
         /\ f' = r.f
         /\ failure' = r.failure
         /\ last' = [Call("AddDefinition") EXCEPT !.loc = loc, !.def = def]
         /\ usrs' = usrs \cup {loc.usr}
    /\ nops' = nops + 1
    /\ UNCHANGED <<stored, loads>>
    /\ UNCHANGED <<completion, got>>

CallAddCaller ==
    /\ CanMutate
    /\ \E sym \in CallSites, funcCall \in BOOLEAN :
         LET r == AddCaller(f, sym, ZeroLocation, funcCall) IN
         /\ f' = r.f
         /\ failure' = r.failure
         /\ last' = [Call("AddCaller") EXCEPT !.loc = sym, !.funcCall = funcCall]
         /\ usrs' = usrs \cup {sym.usr}
    /\ nops' = nops + 1
    /\ UNCHANGED <<stored, loads>>
    /\ UNCHANGED <<completion, got>>

CallAddHeader ==
    /\ CanMutate
    /\ \E headerFile \in HeaderFiles, now \in Nows :
       \E includePath \in IncludePaths(headerFile) :
         LET r == AddHeader(f, includePath, headerFile, now) IN
         /\ f' = r.f
         /\ failure' = r.failure
         /\ last' = [Call("AddHeader") EXCEPT !.includePath = includePath,
                                             !.headerFile = headerFile]
    /\ nops' = nops + 1
    /\ UNCHANGED <<stored, loads, usrs>>
    /\ UNCHANGED <<completion, got>>

CallAddTranslationUnit ==
    /\ CanMutate
    /\ \E buf \in TranslationUnits :
         LET r == AddTranslationUnit(f, buf) IN
         /\ f' = r.f
         /\ failure' = r.failure
         /\ last' = [Call("AddTranslationUnit") EXCEPT !.buf = buf]
    /\ nops' = nops + 1
    /\ UNCHANGED <<stored, loads, usrs>>
    /\ UNCHANGED <<completion, got>>

CallSerialize ==
    /\ failure = NoFailure
    /\ \E order \in Orders(SymbolKeys(f)) :
         LET r == Serialize(f, order) IN
         /\ f' = r.f
         /\ failure' = r.failure
         /\ stored' = IF r.failure = NoFailure THEN r.buf ELSE stored
    /\ last' = Call("Serialize")
    /\ UNCHANGED <<nops, loads, usrs>>
    /\ UNCHANGED <<completion, got>>

\* A new File is opened on the stored buffer; it replaces the one held.
CallGetRootAsFile ==
    /\ stored /= Nil
    /\ loads < MaxLoads
    /\ f' = GetRootAsFile(stored[1])
    /\ failure' = NoFailure
    /\ last' = Call("GetRootAsFile")
    /\ loads' = loads + 1
    /\ usrs' = {}
    /\ UNCHANGED <<stored, nops>>
    /\ UNCHANGED <<completion, got>>

CallUnmarshal ==
    /\ failure = NoFailure
    /\ loads < MaxLoads
    /\ LET r == Unmarshal(f) IN
         /\ f' = r.f
         /\ failure' = r.failure
    /\ last' = Call("Unmarshal")
    /\ loads' = loads + 1
    /\ UNCHANGED <<stored, nops, usrs>>
    /\ UNCHANGED <<completion, got>>

Next ==
    \/ CallAddDecl
    \/ CallAddDefinition
    \/ CallAddCaller
    \/ CallAddHeader
    \/ CallAddTranslationUnit
    \/ CallSerialize
    \/ CallGetRootAsFile
    \/ CallUnmarshal

Spec == Init /\ [][Next]_vars

\* ------------------------------------------- state machine, code completion

ChunkTexts == {Str("x"), Str("y")}

Chunks == {Chunk(kind, text) : kind \in ChunkKinds, text \in ChunkTexts}

\* The sequences over S of length at most n.
SeqsUpTo(S, n) == UNION {[1..k -> S] : k \in 0..n}

\* The lists of at most n candidates whose completion strings hold at most
\* chunks chunks in all.
RECURSIVE CandidateLists(_, _)
CandidateLists(n, chunks) ==
    IF n = 0 THEN {<< >>}
    ELSE {<< >>} \cup
         UNION {{<<cs>> \o rest : rest \in CandidateLists(n - 1, chunks - Len(cs))}
                : cs \in SeqsUpTo(Chunks, chunks)}

\* The values of v: nil, or a pointer to the candidates.
ClangResults ==
    {Nil} \cup {Ptr(l) : l \in CandidateLists(MaxResults, MaxChunks)}

InitCompletion ==
    /\ f = NewFile(EmptyString, << >>)
    /\ stored = Nil
    /\ failure = NoFailure
    /\ last = Call("CodeCompleteAt")
    /\ nops = 0
    /\ loads = 0
    /\ usrs = {}
    /\ clangResults \in ClangResults
    /\ builder = Nil
    /\ codeCompleteResults = Nil
    /\ itemList = << >>
    /\ got = Nil

CallMarshal ==
    /\ last.op = "CodeCompleteAt"
    /\ builder' = CodeCompleteResultsMarshal(clangResults)
    /\ last' = Call("Marshal")
    /\ UNCHANGED <<f, stored, failure, nops, loads, usrs>>
    /\ UNCHANGED <<clangResults, codeCompleteResults, itemList, got>>

\* The reader opens the buffer of the builder Marshal returned.
CallNewCodeCompleteResults ==
    /\ last.op = "Marshal"
    /\ builder /= Nil
    /\ LET b == FinishedBytes(builder[1]) IN
       IF b.ok
       THEN /\ codeCompleteResults' = Ptr(NewCodeCompleteResults(b.val))
            /\ failure' = NoFailure
       ELSE /\ codeCompleteResults' = Nil
            /\ failure' = NotFinished
    /\ last' = Call("NewCodeCompleteResults")
    /\ UNCHANGED <<f, stored, nops, loads, usrs>>
    /\ UNCHANGED <<clangResults, builder, itemList, got>>

CallResults ==
    /\ last.op = "NewCodeCompleteResults"
    /\ failure = NoFailure
    /\ itemList' = Results(codeCompleteResults[1])
    /\ last' = Call("Results")
    /\ UNCHANGED <<f, stored, failure, nops, loads, usrs>>
    /\ UNCHANGED <<clangResults, builder, codeCompleteResults, got>>

NextCompletion ==
    \/ CallMarshal
    \/ CallNewCodeCompleteResults
    \/ CallResults

SpecCompletion == InitCompletion /\ [][NextCompletion]_vars

\* --------------------------------------- state machine, reads through a view

\* The tables a buffer may hold where a Location is expected.
LocationTables == {serializeLocation(ZeroLocation), serializeLocation(LocA1)}

\* A Caller table, with or without its Location field.
CallerTables ==
    {[Location |-> l, FuncCall |-> 1] : l \in LocationTables}
    \cup {[FuncCall |-> 1]}

\* An Info table with the given Decls, Def and Callers, with or without its
\* ID field.
InfoTablesWith(decls, def, callers) ==
    {[ID |-> HashString(ToID(UsrA)), Decls |-> decls, Def |-> def,
      Callers |-> callers],
     [Decls |-> decls, Def |-> def, Callers |-> callers]}

InfoTables ==
    UNION {InfoTablesWith(decls, def, callers) :
             decls \in SeqsUpTo({serializeLocation(LocA1)}, 1),
             def \in LocationTables,
             callers \in SeqsUpTo(CallerTables, 1)}

\* A File table with the given Symbols, with or without its Name field.
FileTablesWith(symbols) ==
    {[Name |-> Str("a.c"), Flags |-> << >>, TranslationUnit |-> <<"tu1">>,
      Symbols |-> symbols, Headers |-> << >>],
     [Flags |-> << >>, TranslationUnit |-> <<"tu1">>,
      Symbols |-> symbols, Headers |-> << >>]}

\* The buffers a reader may be handed: well formed, or with required fields
\* missing.
Buffers == UNION {FileTablesWith(symbols) : symbols \in SeqsUpTo(InfoTables, MaxInfos)}

\* A read: the table it went to, the field it asked for, what the accessor
\* returned.
Read(table, field, result) ==
    [table |-> table, field |-> field, result |-> result]

InitDecode ==
    /\ \E buf \in Buffers :
         /\ stored = Ptr(buf)
         /\ f = GetRootAsFile(buf)
    /\ failure = NoFailure
    /\ last = Call("GetRootAsFile")
    /\ nops = 0
    /\ loads = 0
    /\ usrs = {}
    /\ clangResults = Nil
    /\ builder = Nil
    /\ codeCompleteResults = Nil
    /\ itemList = << >>
    /\ got = Nil

\* f.Name()
CallName ==
    /\ failure = NoFailure
    /\ got' = Ptr(Read(f.file[1], "Name", Name(f)))
    /\ failure' = IF Name(f).ok THEN NoFailure ELSE NilDeref
    /\ last' = Call("Name")
    /\ UNCHANGED <<f, stored, nops, loads, usrs, completion>>

\* f.Symbols()[i].ID()
CallInfoID ==
    /\ failure = NoFailure
    /\ \E i \in 1..Len(BufferSymbols(f)) :
         LET info == BufferSymbols(f)[i][1] IN
         /\ got' = Ptr(Read(info.info[1], "ID", InfoID(info)))
         /\ failure' = IF InfoID(info).ok THEN NoFailure ELSE NilDeref
    /\ last' = Call("ID")
    /\ UNCHANGED <<f, stored, nops, loads, usrs, completion>>

\* f.Symbols()[i].Callers()[j].Location()
CallCallerLocation ==
    /\ failure = NoFailure
    /\ \E i \in 1..Len(BufferSymbols(f)) :
         LET callers == InfoCallers(BufferSymbols(f)[i][1]).val IN
         \E j \in 1..Len(callers) :
           LET c == callers[j][1] IN
           /\ got' = Ptr(Read(c.caller[1], "Location", CallerLocation(c)))
           /\ failure' = IF CallerLocation(c).ok THEN NoFailure ELSE NilDeref
    /\ last' = Call("Location")
    /\ UNCHANGED <<f, stored, nops, loads, usrs, completion>>

NextDecode ==
    \/ CallName
    \/ CallInfoID
    \/ CallCallerLocation

SpecDecode == InitDecode /\ [][NextDecode]_vars

\* ------------------------------------------------------------------ claims

\* f was made by NewFile (build mode): it has no backing buffer.
BuildMode(file) == file.file = Nil

\* The record the table of file holds for usr, or the record a first fact
\* about usr starts from.
InfoFor(file, usr) ==
    IF HasSymbol(file, ToID(usr)) THEN file.symbols[1][ToID(usr)]
    ELSE NewInfo(ToID(usr))

\* The value is "absent" in the sense of the data model: every field zero.
Absent(l) == l = ZeroLocation

\* The last n elements of the sequence q.
LastN(q, n) == SubSeq(q, Len(q) - n + 1, Len(q))

\* C1: on a build-mode File, AddDefinition(loc, def1) followed by
\* AddDefinition(loc2, def2) for the same USR, def1 and def2 both existing,
\* leaves one Info for that USR, whose Def is def2 and whose Decls end with
\* loc, loc2 in that order.
C1_DefinitionOverwrite ==
    [][(/\ BuildMode(f)
        /\ last.op = "AddDefinition" /\ last'.op = "AddDefinition"
        /\ last.loc.usr = last'.loc.usr
        /\ ~Absent(last.def) /\ ~Absent(last'.def))
       => (/\ failure' = NoFailure
           /\ HasSymbol(f', ToID(last'.loc.usr))
           /\ Cardinality({k \in SymbolKeys(f') :
                  \E i \in 1..Len(f'.symbols[1][k].decls) :
                      f'.symbols[1][k].decls[i].usr = last'.loc.usr}) = 1
           /\ InfoFor(f', last'.loc.usr).def = last'.def
           /\ Len(InfoFor(f', last'.loc.usr).decls) >= 2
           /\ LastN(InfoFor(f', last'.loc.usr).decls, 2)
                  = <<last.loc, last'.loc>>)]_vars

C1_Witness ==
    /\ BuildMode(f) /\ failure = NoFailure
    /\ last = [Call("AddDefinition") EXCEPT !.loc = LocA2, !.def = LocA2]
    /\ nops = 2
    /\ InfoFor(f, UsrA).decls = <<LocA1, LocA2>>
    /\ InfoFor(f, UsrA).def = LocA2

\* C2: AddDecl(loc), and AddDefinition(loc, def) with an absent def, append
\* loc to the Decls of the symbol of loc and leave its Def as it was.
C2_AbsentDefKeepsDef ==
    [][(/\ BuildMode(f)
        /\ last'.op \in {"AddDecl", "AddDefinition"}
        /\ Absent(last'.def))
       => (/\ failure' = NoFailure
           /\ InfoFor(f', last'.loc.usr).decls
                  = Append(InfoFor(f, last'.loc.usr).decls, last'.loc)
           /\ InfoFor(f', last'.loc.usr).def = InfoFor(f, last'.loc.usr).def)]_vars

\* C3: on a build-mode File AddCaller(sym, def, isFunctionCall) appends one
\* Caller {sym, isFunctionCall} to the Callers of the Info keyed by
\* SymbolID(sym.usr), creating it with no Decls and an absent Def when it was
\* missing, and changes neither its Decls, nor its Def, nor any other Info.
C3_AddCallerFrame ==
    [][(BuildMode(f) /\ last'.op = "AddCaller")
       => (/\ failure' = NoFailure
           /\ SymbolKeys(f') = SymbolKeys(f) \cup {ToID(last'.loc.usr)}
           /\ InfoFor(f', last'.loc.usr).id = ToID(last'.loc.usr)
           /\ InfoFor(f', last'.loc.usr).callers
                  = Append(InfoFor(f, last'.loc.usr).callers,
                           Ptr([location |-> last'.loc,
                                funcCall |-> last'.funcCall,
                                caller   |-> Nil]))
           /\ InfoFor(f', last'.loc.usr).decls = InfoFor(f, last'.loc.usr).decls
           /\ InfoFor(f', last'.loc.usr).def = InfoFor(f, last'.loc.usr).def
           /\ \A k \in SymbolKeys(f) \ {ToID(last'.loc.usr)} :
                  f'.symbols[1][k] = f.symbols[1][k])]_vars

C3_Witness ==
    /\ BuildMode(f) /\ failure = NoFailure
    /\ last.op = "AddCaller" /\ last.funcCall
    /\ Cardinality(SymbolKeys(f)) = 1
    /\ InfoFor(f, last.loc.usr).decls = << >>
    /\ Absent(InfoFor(f, last.loc.usr).def)
    /\ Len(InfoFor(f, last.loc.usr).callers) = 1

\* C4: on a build-mode File the table holds exactly one Info per USR seen so
\* far, each stored under its own ID, and that ID is SymbolID of the USR of
\* every Decl and Caller location the Info holds.
C4_OneInfoPerUSR ==
    (BuildMode(f) /\ failure = NoFailure)
    => (/\ f.symbols /= Nil
        /\ SymbolKeys(f) = {ToID(u) : u \in usrs}
        /\ Cardinality(SymbolKeys(f)) = Cardinality(usrs)
        /\ \A k \in SymbolKeys(f) :
             LET info == f.symbols[1][k] IN
             /\ info.id = k
             /\ \A i \in 1..Len(info.decls) : ToID(info.decls[i].usr) = k
             /\ \A i \in 1..Len(info.callers) :
                    ToID(info.callers[i][1].location.usr) = k)

C4_Witness ==
    /\ BuildMode(f) /\ failure = NoFailure
    /\ usrs = {UsrA, EmptyString}
    /\ Cardinality(SymbolKeys(f)) = 2
    /\ Len(InfoFor(f, EmptyString).decls) = 1
    /\ Len(InfoFor(f, EmptyString).callers) = 1
    /\ Len(InfoFor(f, UsrA).decls) = 1

\* What is recorded of a Location held in memory.
MemLocation(l) ==
    [FileName |-> l.fileName, Line |-> l.line, Col |-> l.col,
     Offset |-> l.offset, USR |-> l.usr]

\* What the accessors return on a Location decoded from a buffer.
SeenLocation(l) ==
    [FileName |-> LocationFileName(l).val, Line |-> LocationLine(l).val,
     Col |-> LocationCol(l).val, Offset |-> LocationOffset(l).val,
     USR |-> LocationUSR(l).val]

MemCaller(c) == [Location |-> MemLocation(c.location), FuncCall |-> c.funcCall]

SeenCaller(c) ==
    [Location |-> SeenLocation(CallerLocation(c).val),
     FuncCall |-> CallerFuncCall(c).val]

\* (ID, Decls, Def, Callers) of an Info held in memory ...
MemInfo(info) ==
    [ID      |-> info.id,
     Decls   |-> [i \in 1..Len(info.decls) |-> MemLocation(info.decls[i])],
     Def     |-> MemLocation(info.def),
     Callers |-> [i \in 1..Len(info.callers) |-> MemCaller(info.callers[i][1])]]

\* ... and of an Info decoded from a buffer, through its accessors.
SeenInfo(info) ==
    [ID      |-> InfoID(info).val,
     Decls   |-> [i \in 1..Len(InfoDecls(info).val) |->
                     SeenLocation(InfoDecls(info).val[i])],
     Def     |-> SeenLocation(InfoDef(info).val),
     Callers |-> [i \in 1..Len(InfoCallers(info).val) |->
                     SeenCaller(InfoCallers(info).val[i][1])]]

MemHeader(h) == [FileID |-> h.fileid, Mtime |-> Unix(h.mtime)]

SeenHeader(h) == [FileID |-> HeaderFileID(h).val, Mtime |-> HeaderMtime(h).val]

\* The view GetRootAsFile opens on the stored buffer.
StoredView == GetRootAsFile(stored[1])

\* f is a build-mode File and Serialize has just returned its buffer.
JustSerialized ==
    BuildMode(f) /\ last.op = "Serialize" /\ failure = NoFailure

\* C5: round trip.  The view opened on the buffer Serialize returned for a
\* build-mode File shows the File's Name, Flags and TranslationUnit, the same
\* set of (ID, Decls, Def, Callers) per symbol and the same sequence of
\* (FileID, Mtime) per header, lists in insertion order.
C5_RoundTrip ==
    JustSerialized
    => (/\ Name(StoredView) = Ok(f.name)
        /\ Flags(StoredView) = Ok(f.flags)
        /\ TranslationUnit(StoredView) = Ok(f.translationUnit)
        /\ Len(BufferSymbols(StoredView)) = Cardinality(SymbolKeys(f))
        /\ {SeenInfo(BufferSymbols(StoredView)[i][1]) :
                i \in 1..Len(BufferSymbols(StoredView))}
             = {MemInfo(f.symbols[1][k]) : k \in SymbolKeys(f)}
        /\ [i \in 1..Len(Headers(StoredView).val) |->
                SeenHeader(Headers(StoredView).val[i][1])]
             = [i \in 1..Len(f.headers) |-> MemHeader(f.headers[i][1])])

\* The USRs of the locations a symbol of a buffer holds.
TableUSRs(t) ==
    {t.Decls[i].USR : i \in 1..Len(t.Decls)}
        \cup {t.Callers[i].Location.USR : i \in 1..Len(t.Callers)}

\* C6: after GetRootAsFile and Unmarshal every symbol of the buffer is keyed
\* in the table by SymbolID of its USR, the ID its accessor returns, which is
\* the ID whose printed form the buffer stores.
C6_IDStable ==
    (~BuildMode(f) /\ last.op = "Unmarshal" /\ failure = NoFailure)
    => \A i \in 1..Len(f.file[1].Symbols) :
         LET t == f.file[1].Symbols[i] IN
         /\ HashString(InfoID(ViewInfo(t)).val) = t.ID
         /\ \A u \in TableUSRs(t) :
              /\ InfoID(ViewInfo(t)).val = ToID(u)
              /\ HasSymbol(f, ToID(u))
              /\ f.symbols[1][ToID(u)].info = Ptr(t)

MutationOps ==
    {"AddDecl", "AddDefinition", "AddCaller", "AddHeader", "AddTranslationUnit"}

\* C7: a mutation call never fails, whatever File it is made on.
C7_MutationsNeverFail == last.op \in MutationOps => failure = NoFailure

\* C8: Unmarshal on a File just opened from a buffer changes nothing of what
\* Name(), TranslationUnit() and Headers() return, and fills the table with
\* one Info per symbol of the buffer, with its ID, Decls, Def and Callers.
C8_UnmarshalPreserves ==
    [][(last.op = "GetRootAsFile" /\ last'.op = "Unmarshal")
       => (/\ failure' = NoFailure
           /\ Name(f') = Name(f)
           /\ TranslationUnit(f') = TranslationUnit(f)
           /\ Headers(f') = Headers(f)
           /\ Cardinality(SymbolKeys(f')) = Len(BufferSymbols(f))
           /\ \A i \in 1..Len(BufferSymbols(f)) :
                LET s == BufferSymbols(f)[i][1] IN
                /\ HasSymbol(f', InfoID(s).val)
                /\ f'.symbols[1][InfoID(s).val].id = InfoID(s).val
                /\ f'.symbols[1][InfoID(s).val].decls = InfoDecls(s).val
                /\ f'.symbols[1][InfoID(s).val].def = InfoDef(s).val
                /\ f'.symbols[1][InfoID(s).val].callers = InfoCallers(s).val)]_vars

\* C9: right after AddTranslationUnit(buf), TranslationUnit() returns buf,
\* and the call changes neither name, flags, symbol table nor headers.
C9_SnapshotReplaced ==
    [][(last'.op = "AddTranslationUnit")
       => (/\ failure' = NoFailure
           /\ TranslationUnit(f') = Ok(last'.buf)
           /\ f'.name = f.name
           /\ f'.flags = f.flags
           /\ f'.symbols = f.symbols
           /\ f'.headers = f.headers)]_vars

\* C10: the Header list is empty on a new File; each AddHeader call appends
\* one Header to it, keeps every earlier entry and leaves the symbol table
\* alone, duplicate FileIDs included; no other call on a build-mode File
\* changes the list, so after n calls it holds n Headers in call order.
C10_AddHeaderAppends ==
    /\ f.headers = << >>
    /\ [][/\ (last'.op = "AddHeader")
             => (/\ failure' = NoFailure
                 /\ Len(f'.headers) = Len(f.headers) + 1
                 /\ SubSeq(f'.headers, 1, Len(f.headers)) = f.headers
                 /\ f'.headers[Len(f'.headers)] /= Nil
                 /\ f'.headers[Len(f'.headers)][1].header = Nil
                 /\ f'.symbols = f.symbols)
          /\ (BuildMode(f) /\ BuildMode(f') /\ last'.op /= "AddHeader")
             => f'.headers = f.headers]_vars

C10_Witness ==
    /\ BuildMode(f) /\ failure = NoFailure
    /\ last.op = "AddHeader"
    /\ nops = 2
    /\ Len(f.headers) = 2
    /\ f.headers[1][1].fileid = f.headers[2][1].fileid
    /\ f.headers[1][1].mtime /= f.headers[2][1].mtime

\* The Header the last AddHeader call appended to the list of file.
LastHeader(file) == file.headers[Len(file.headers)][1]

\* The identity of a header without a resolved name: the marker followed by
\* the base name of the path it was included under.
SentinelFileID(path) == ToFileID(Str("IDoNotReallyExist-") \o Base(path))

\* C11: for a handle without a name AddHeader records the FileID of
\* "IDoNotReallyExist-" + basename(original path), which is not the FileID of
\* a real file of that base name, and two such headers of different base
\* names get different FileIDs; for a named handle it records the FileID of
\* the cleaned name and the handle's modification time.
C11_SentinelIdentity ==
    [][(last'.op = "AddHeader" /\ failure' = NoFailure)
       => IF last'.headerFile.name = EmptyString
          THEN /\ LastHeader(f').fileid = SentinelFileID(last'.includePath)
               /\ LastHeader(f').fileid /= ToFileID(Base(last'.includePath))
               /\ (/\ last.op = "AddHeader"
                   /\ last.headerFile.name = EmptyString
                   /\ Base(last.includePath) /= Base(last'.includePath))
                  => LastHeader(f').fileid /= LastHeader(f).fileid
          ELSE /\ LastHeader(f').fileid = ToFileID(Clean(last'.headerFile.name))
               /\ LastHeader(f').mtime = last'.headerFile.time]_vars

\* C15: on a File whose symbol table is non-empty Symbols() returns exactly
\* one non-nil entry per Info of the table and nothing else (its length is
\* the number of keys), whatever the order of the map range; on a File with
\* an empty table and a backing buffer it returns one view per Info of the
\* buffer.
C15_SymbolsContract ==
    failure = NoFailure =>
      \A order \in Orders(SymbolKeys(f)) :
        LET r == Symbols(f, order) IN
        IF SymbolKeys(f) /= {}
        THEN /\ r.ok
             /\ Len(r.val) = Cardinality(SymbolKeys(f))
             /\ \A i \in 1..Len(r.val) : r.val[i] /= Nil
             /\ \A k \in SymbolKeys(f) :
                  \E i \in 1..Len(r.val) : r.val[i] = Ptr(f.symbols[1][k])
        ELSE ~BuildMode(f) =>
             /\ r.ok
             /\ Len(r.val) = Len(f.file[1].Symbols)
             /\ \A i \in 1..Len(r.val) :
                  r.val[i] = Ptr(ViewInfo(f.file[1].Symbols[i]))

\* C16: Serialize of a build-mode File, whatever mutations it has received
\* (none, no translation unit, an empty one, no symbols, no headers),
\* returns a finished buffer and leaves the File's name, flags, symbol table
\* and header list as they were.
C16_SerializeTotal ==
    [][(BuildMode(f) /\ failure = NoFailure /\ last'.op = "Serialize")
       => /\ failure' = NoFailure
          /\ stored' /= Nil
          /\ f'.name = f.name
          /\ f'.flags = f.flags
          /\ f'.symbols = f.symbols
          /\ f'.headers = f.headers]_vars

\* What a buffer says about its symbols regardless of their order and of
\* their IDs: the Decls, Def and Callers of each.
SymbolFacts(t) ==
    {[Decls   |-> t.Symbols[i].Decls,
      Def     |-> t.Symbols[i].Def,
      Callers |-> t.Symbols[i].Callers] : i \in 1..Len(t.Symbols)}

\* f is the File GetRootAsFile(B) followed by Unmarshal gives for the stored
\* buffer B.
Seeded ==
    /\ stored /= Nil
    /\ failure = NoFailure
    /\ last.op = "Unmarshal"
    /\ f = Unmarshal(GetRootAsFile(stored[1])).f

\* C17: Serialize of the File seeded from a stored buffer B (GetRootAsFile(B),
\* then Unmarshal) returns a buffer with the Name, Flags, TranslationUnit and
\* headers of B and, for the symbols, the same Decls, Def and Callers.
C17_SeedingPreserves ==
    [][(Seeded /\ last'.op = "Serialize")
       => /\ failure' = NoFailure
          /\ stored' /= Nil
          /\ stored'[1].Name = stored[1].Name
          /\ stored'[1].Flags = stored[1].Flags
          /\ stored'[1].TranslationUnit = stored[1].TranslationUnit
          /\ stored'[1].Headers = stored[1].Headers
          /\ SymbolFacts(stored'[1]) = SymbolFacts(stored[1])]_vars

\* The concatenation of the strings of texts, in order.
RECURSIVE Concat(_)
Concat(texts) ==
    IF texts = << >> THEN EmptyString ELSE Head(texts) \o Concat(Tail(texts))

\* The texts, concatenated in order, of the chunks of cs whose kind is in
\* kinds.
TextsOf(cs, kinds) ==
    LET sel == SelectSeq(cs, LAMBDA chunk : chunk.kind \in kinds)
    IN  Concat([i \in 1..Len(sel) |-> sel[i].text])

\* The candidates handed to Marshal.
Candidates == clangResults[1]

\* Marshal was handed at least one candidate and has returned.
MarshalledSome ==
    /\ last.op \in {"Marshal", "NewCodeCompleteResults", "Results"}
    /\ clangResults /= Nil
    /\ Len(Candidates) >= 1

\* C12: for one candidate or more, Marshal returns a finished buffer whose
\* Results vector holds, in the candidates' order, one table per candidate
\* with Word the typed-text chunk texts in order, Kind the result-type chunk
\* texts, Abbr and Info the texts of every chunk that is not result-type,
\* Menu empty, Icase and Dup set; and Results() reads the same items back in
\* that order.
C12_CompletionConversion ==
    /\ MarshalledSome =>
         /\ builder /= Nil
         /\ builder[1].finished
         /\ LET t == builder[1].root[1].Results IN
            /\ Len(t) = Len(Candidates)
            /\ \A i \in 1..Len(t) :
                 /\ t[i].Word = TextsOf(Candidates[i], {TypedText})
                 /\ t[i].Kind = TextsOf(Candidates[i], {ResultType})
                 /\ t[i].Abbr = TextsOf(Candidates[i], ChunkKinds \ {ResultType})
                 /\ t[i].Info = t[i].Abbr
                 /\ t[i].Menu = EmptyString
                 /\ t[i].Icase = 1
                 /\ t[i].Dup = 1
    /\ (MarshalledSome /\ last.op = "Results") =>
         /\ Len(itemList) = Len(Candidates)
         /\ \A i \in 1..Len(itemList) :
              /\ itemList[i].word = TextsOf(Candidates[i], {TypedText})
              /\ itemList[i].kind = TextsOf(Candidates[i], {ResultType})
              /\ itemList[i].abbr = TextsOf(Candidates[i], ChunkKinds \ {ResultType})
              /\ itemList[i].info = itemList[i].abbr
              /\ itemList[i].menu = EmptyString
              /\ itemList[i].icase
              /\ itemList[i].dup

\* Results() has returned two items read from the buffer of two candidates:
\* the first made of a typed-text and another chunk, the second of a
\* result-type chunk.
C12_Witness ==
    /\ last.op = "Results"
    /\ failure = NoFailure
    /\ Candidates = << <<Chunk(TypedText, Str("x")), Chunk(Placeholder, Str("y"))>>,
                       <<Chunk(ResultType, Str("y"))>> >>
    /\ Len(itemList) = 2
    /\ itemList[1].word = Str("x")
    /\ itemList[1].abbr = Str("x") \o Str("y")
    /\ itemList[1].kind = EmptyString
    /\ itemList[2].word = EmptyString
    /\ itemList[2].kind = Str("y")

\* C13: Marshal of zero candidates returns a finished buffer holding a root
\* CodeCompleteResults table; opening it does not fail and Results() returns
\* a sequence of length 0.
C13_EmptyResults ==
    (clangResults /= Nil /\ Len(Candidates) = 0) =>
      /\ last.op \in {"Marshal", "NewCodeCompleteResults", "Results"} =>
           /\ builder /= Nil
           /\ builder[1].finished
           /\ builder[1].root /= Nil
      /\ last.op = "NewCodeCompleteResults" =>
           /\ failure = NoFailure
           /\ codeCompleteResults /= Nil
      /\ last.op = "Results" => Len(itemList) = 0

\* C14: a read through a view that goes to a table lacking the required field
\* it asks for (File.Name, Info.ID, Caller.Location) reports a failure; it
\* does not return a value.
C14_MalformedBuffer ==
    (got /= Nil /\ got[1].field \notin DOMAIN got[1].table)
      => ~got[1].result.ok

====
